---------------------------- MODULE Spec2Model ----------------------------
(***************************************************************************)
(* Model of the connection-and-transfer engine, src/src/sftp_client.py     *)
(* (class SFTPClient).  One action per public method; each action runs the *)
(* whole method, exception handlers included, and leaves in `last` the     *)
(* record of the call: what it returned or raised and, in order, the calls *)
(* it made on its collaborators (paramiko handles, os, the observer).      *)
(*                                                                         *)
(* Strings are sequences of one-character strings, so that rstrip, split,  *)
(* join and startswith are computed as Python computes them.               *)
(***************************************************************************)
EXTENDS Integers, Sequences, FiniteSets, TLC

\* ------------------------------------------------------------------ bounds
MaxConnects == 2      \* connect() calls explored (each creates one SSH handle)
MaxPathLen  == 4      \* longest remote cursor explored, in characters
MaxTokLen   == 2      \* longest path token passed to change_remote_directory
MaxCursorLen == 4     \* longest cursor whose resolution is computed on its own
MaxEntries  == 2      \* most entries in one listed directory
MaxChunks   == 3      \* largest file transferred chunk by chunk, in chunks
MaxFiles    == 2      \* most files selected for one transfer batch
MaxBatches  == 1      \* transfer batches the user starts

\* ------------------------------------------------------------ Python text
\* Characters of cursors and tokens: the separator and one name character.
\* The parent token '..' is the one string with other characters; it is
\* compared, never copied into a cursor.
Chars == {"/", "a"}

Str(n) == UNION {[1..k -> Chars] : k \in 0..n}

SLASH  == <<"/">>
DOTDOT == <<".", ".">>

Front(s) == SubSeq(s, 1, Len(s) - 1)

\* str.rstrip('/')
RECURSIVE RStrip(_)
RStrip(s) ==
    IF s # <<>> /\ s[Len(s)] = "/" THEN RStrip(Front(s)) ELSE s

\* str.split('/'): always at least one part; '' gives ['']
RECURSIVE Split(_)
Split(s) ==
    IF s = <<>> THEN << <<>> >>
    ELSE LET p == Split(Front(s)) IN
         IF s[Len(s)] = "/" THEN Append(p, <<>>)
         ELSE [p EXCEPT ![Len(p)] = Append(@, s[Len(s)])]

\* '/'.join(parts)
RECURSIVE Join(_)
Join(parts) ==
    IF parts = <<>> THEN <<>>
    ELSE IF Len(parts) = 1 THEN parts[1]
    ELSE Join(Front(parts)) \o SLASH \o parts[Len(parts)]

\* str.startswith('/')
StartsWithSlash(s) == s # <<>> /\ s[1] = "/"

\* x or '/'   (an empty string and None are both falsy)
OrRoot(x) == IF x = <<>> THEN SLASH ELSE x

\* ------------------------------------------------------------------ state
VARIABLES
    ssh_client,           \* self.ssh_client: 0 is None, else a handle id
    sftp_client,          \* self.sftp_client: 0 is None, else a handle id
    is_connected,         \* self.is_connected
    current_remote_path,  \* self.current_remote_path
    status_callback,      \* self.status_callback is set (an observer is registered)
    ssh_state,            \* every paramiko.SSHClient ever created: its condition
    sftp_state,           \* every paramiko SFTP channel ever opened: its condition
    nextId,               \* id of the next handle connect() will create
    last,                 \* record of the most recent call on the client
    resolve,              \* one path resolution: cursor, token and result
    listing,              \* one directory listing: raw entries and result
    xfer,                 \* one transfer in flight, chunk by chunk, with its
                          \* progress observers and the progress dialog
    nav,                  \* the remote panel's path and the local cursor
    app                   \* the application: its flags, status texts, worker
                          \* threads and deferred callbacks

vars == <<ssh_client, sftp_client, is_connected, current_remote_path,
          status_callback, ssh_state, sftp_state, nextId, last,
          resolve, listing, xfer, nav, app>>

\* What the session's methods, taken as single steps, leave alone.
aside == <<resolve, listing, xfer, nav, app>>

Ids == 1..MaxConnects

\* The client object as one record, handed to the method operators.
Self == [ssh_client |-> ssh_client, sftp_client |-> sftp_client,
         is_connected |-> is_connected,
         current_remote_path |-> current_remote_path,
         status_callback |-> status_callback,
         ssh_state |-> ssh_state, sftp_state |-> sftp_state,
         nextId |-> nextId]

\* A call record: op, what it returned ("True", "False", "None", "list" or
\* "raise"), the exception that left the method ("none" if it returned), the
\* collaborator calls in order, the handle id connect() created (0 if none)
\* and the credentials connect() was given.
\* local is the kind of file at upload_file's local path ("n/a" elsewhere).
Call(op, result, raised, events, hid, key, pw) ==
    [op |-> op, result |-> result, raised |-> raised, events |-> events,
     hid |-> hid, key |-> key, pw |-> pw, local |-> "n/a"]

Plain(op, result, raised, events) ==
    Call(op, result, raised, events, 0, "none", FALSE)

\* Nothing being resolved, listed or transferred.
Idle == [pc |-> "idle"]

\* SFTPClient.__init__
Fresh ==
    /\ ssh_client = 0
    /\ sftp_client = 0
    /\ is_connected = FALSE
    /\ current_remote_path = SLASH
    /\ status_callback = FALSE
    /\ ssh_state = [i \in Ids |-> "none"]
    /\ sftp_state = [i \in Ids |-> "none"]
    /\ nextId = 1
    /\ last = Plain("init", "None", "none", <<>>)

Init ==
    /\ Fresh
    /\ resolve = Idle
    /\ listing = Idle
    /\ xfer = Idle
    /\ nav = Idle
    /\ app = Idle


\* ---------------------------------------------------------------- helpers
Has(events, e) == \E i \in 1..Len(events) : events[i] = e

Count(events, e) == Cardinality({i \in 1..Len(events) : events[i] = e})

\* e1 occurs, and no e2 occurs before the first e1
Before(events, e1, e2) ==
    \E i \in 1..Len(events) :
        /\ events[i] = e1
        /\ \A j \in 1..i : events[j] # e2

\* ---------------------------------------------------------------- connect
KeyKinds == {"none", "plain", "encrypted", "corrupt"}
    \* private_key_path: not given, or no such file (line 77 treats them
    \* alike); an unencrypted key; a passphrase-protected key; a file that
    \* does not load as an RSA key

TransportOutcomes == {"ok", "auth_fail", "ssh_error", "net_error"}
    \* SSHClient.connect: returns; AuthenticationException; another
    \* SSHException; socket error or timeout

ServerCwds == {<<>>, <<"/", "a">>}
    \* what getcwd() reports: None, or an absolute path

ConnectInputs ==
    [key : KeyKinds, pw : BOOLEAN, passOk : BOOLEAN,
     trans : TransportOutcomes, sftpOk : BOOLEAN, cwd : ServerCwds,
     obs : 0..2]
    \* pw: a non-empty password was passed; passOk: that password decrypts
    \* the key; obs: how many of the observer's first invocations raise

\* SelectAuth without the final `return False` of lines 100-102: with no key
\* and no password the method goes on to SSHClient.connect.
SelectAuth_NoCredentialCheck(key, pw, passOk) ==
    IF key \in {"plain", "encrypted", "corrupt"} THEN
        IF key = "plain" THEN
            [method |-> "pkey", events |-> <<"key.load">>]
        ELSE IF key = "encrypted" THEN
            IF pw THEN
                IF passOk
                THEN [method |-> "pkey",
                      events |-> <<"key.load", "key.load(password)">>]
                ELSE [method |-> "raise_ssh",
                      events |-> <<"key.load", "key.load(password)">>]
            ELSE [method |-> "return_false", events |-> <<"key.load">>]
        ELSE
            IF pw THEN [method |-> "password", events |-> <<"key.load">>]
            ELSE [method |-> "return_false", events |-> <<"key.load">>]
    ELSE IF pw THEN [method |-> "password", events |-> <<>>]
    ELSE [method |-> "default", events |-> <<>>]

\* SelectAuth without the `return False` of lines 88-90: an encrypted key
\* with no password is logged and the method goes on to SSHClient.connect.
SelectAuth_EncryptedFallsThrough(key, pw, passOk) ==
    IF key \in {"plain", "encrypted", "corrupt"} THEN
        IF key = "plain" THEN
            [method |-> "pkey", events |-> <<"key.load">>]
        ELSE IF key = "encrypted" THEN
            IF pw THEN
                IF passOk
                THEN [method |-> "pkey",
                      events |-> <<"key.load", "key.load(password)">>]
                ELSE [method |-> "raise_ssh",
                      events |-> <<"key.load", "key.load(password)">>]
            ELSE [method |-> "default", events |-> <<"key.load">>]
        ELSE
            IF pw THEN [method |-> "password", events |-> <<"key.load">>]
            ELSE [method |-> "return_false", events |-> <<"key.load">>]
    ELSE IF pw THEN [method |-> "password", events |-> <<>>]
    ELSE [method |-> "return_false", events |-> <<>>]

\* SSHClient.connect is called with pkey=, with password=, or ("default")
\* with neither, when paramiko tries the agent and the user's default keys.
AuthMethods == {"pkey", "password", "default"}

TransportConnects == {"ssh.connect(" \o m \o ")" : m \in AuthMethods}

\* Lines 76-102: choice of the authentication material.  method is "pkey" or
\* "password" (the keyword passed to SSHClient.connect), "return_false" (the
\* method returns False here) or "raise_ssh" (an SSHException leaves the block).
SelectAuth(key, pw, passOk) ==
    IF key \in {"plain", "encrypted", "corrupt"} THEN
        IF key = "plain" THEN
            [method |-> "pkey", events |-> <<"key.load">>]
        ELSE IF key = "encrypted" THEN
            \* except paramiko.PasswordRequiredException
            IF pw THEN
                IF passOk
                THEN [method |-> "pkey",
                      events |-> <<"key.load", "key.load(password)">>]
                ELSE [method |-> "raise_ssh",
                      events |-> <<"key.load", "key.load(password)">>]
            ELSE [method |-> "return_false", events |-> <<"key.load">>]
        ELSE
            \* except Exception: fall back to password authentication
            IF pw THEN [method |-> "password", events |-> <<"key.load">>]
            ELSE [method |-> "return_false", events |-> <<"key.load">>]
    ELSE IF pw THEN [method |-> "password", events |-> <<>>]
    ELSE [method |-> "return_false", events |-> <<>>]

\* Lines 120-134: the three exception handlers of connect().  s is the client
\* when the exception is caught, kind the exception.
ConnectFailed(s, in, events, kind, obsLeft) ==
    LET msg == IF kind = "auth" THEN "notify:Authentication failed"
               ELSE IF kind = "ssh" THEN "notify:Connection error"
               ELSE "notify:Connection failed"
    IN IF s.status_callback THEN
           IF obsLeft > 0
           THEN [s |-> s, result |-> "raise", raised |-> "Exception",
                 events |-> events \o <<msg, "raise:observer">>]
           ELSE [s |-> s, result |-> "False", raised |-> "none",
                 events |-> Append(events, msg)]
       ELSE [s |-> s, result |-> "False", raised |-> "none", events |-> events]

\* ConnectTransport with `self.is_connected = True` moved up, before
\* open_sftp(): a failed SFTP open leaves the session marked connected.
ConnectTransport_ConnectedBeforeSftp(s, in, events0, method) ==
    LET h  == s.ssh_client
        e1 == Append(events0, "ssh.connect(" \o method \o ")")
    IN
    IF in.trans = "auth_fail" THEN
        ConnectFailed(s, in, Append(e1, "raise:AuthenticationException"), "auth", in.obs)
    ELSE IF in.trans = "ssh_error" THEN
        ConnectFailed(s, in, Append(e1, "raise:SSHException"), "ssh", in.obs)
    ELSE IF in.trans = "net_error" THEN
        ConnectFailed(s, in, Append(e1, "raise:OSError"), "other", in.obs)
    ELSE
        LET s1 == [s EXCEPT !.ssh_state[h] = "connected", !.is_connected = TRUE]
            e2 == e1 \o <<"is_connected=True", "ssh.open_sftp">>
        IN
        IF ~in.sftpOk THEN
            ConnectFailed(s1, in, Append(e2, "raise:SSHException"), "ssh", in.obs)
        ELSE
            LET s2 == [s1 EXCEPT !.sftp_state[h] = "open",
                                 !.sftp_client = h,
                                 !.current_remote_path = OrRoot(in.cwd)]
                e3 == Append(e2, "sftp.getcwd")
            IN
            IF s2.status_callback THEN
                IF in.obs > 0
                THEN ConnectFailed(s2, in,
                                   e3 \o <<"notify:Connected", "raise:observer">>,
                                   "other", in.obs - 1)
                ELSE [s |-> s2, result |-> "True", raised |-> "none",
                      events |-> Append(e3, "notify:Connected")]
            ELSE [s |-> s2, result |-> "True", raised |-> "none", events |-> e3]

\* Lines 104-118: transport connect, SFTP open, the state change, the cursor
\* and the notification.  s already holds the new SSHClient.
ConnectTransport(s, in, events0, method) ==
    LET h  == s.ssh_client
        e1 == Append(events0, "ssh.connect(" \o method \o ")")
    IN
    IF in.trans = "auth_fail" THEN
        ConnectFailed(s, in, Append(e1, "raise:AuthenticationException"), "auth", in.obs)
    ELSE IF in.trans = "ssh_error" THEN
        ConnectFailed(s, in, Append(e1, "raise:SSHException"), "ssh", in.obs)
    ELSE IF in.trans = "net_error" THEN
        ConnectFailed(s, in, Append(e1, "raise:OSError"), "other", in.obs)
    ELSE
        LET s1 == [s EXCEPT !.ssh_state[h] = "connected"]
            e2 == Append(e1, "ssh.open_sftp")
        IN
        IF ~in.sftpOk THEN
            ConnectFailed(s1, in, Append(e2, "raise:SSHException"), "ssh", in.obs)
        ELSE
            LET s2 == [s1 EXCEPT !.sftp_state[h] = "open",
                                 !.sftp_client = h,
                                 !.is_connected = TRUE,
                                 !.current_remote_path = OrRoot(in.cwd)]
                e3 == e2 \o <<"is_connected=True", "sftp.getcwd">>
            IN
            IF s2.status_callback THEN
                IF in.obs > 0
                THEN ConnectFailed(s2, in,
                                   e3 \o <<"notify:Connected", "raise:observer">>,
                                   "other", in.obs - 1)
                ELSE [s |-> s2, result |-> "True", raised |-> "none",
                      events |-> Append(e3, "notify:Connected")]
            ELSE [s |-> s2, result |-> "True", raised |-> "none", events |-> e3]

\* SFTPClient.connect, lines 59-134.
ConnectOutcome(s, in) ==
    LET h    == s.nextId
        s0   == [s EXCEPT !.ssh_client = h, !.ssh_state[h] = "created",
                          !.nextId = h + 1]
        auth == SelectAuth(in.key, in.pw, in.passOk)
        e0   == <<"ssh.new">> \o auth.events
    IN
    IF auth.method = "return_false" THEN
        [s |-> s0, result |-> "False", raised |-> "none", events |-> e0]
    ELSE IF auth.method = "raise_ssh" THEN
        ConnectFailed(s0, in, Append(e0, "raise:SSHException"), "ssh", in.obs)
    ELSE ConnectTransport(s0, in, e0, auth.method)

\* Assignment of the client's fields from a method's outcome.
Becomes(s) ==
    /\ ssh_client' = s.ssh_client
    /\ sftp_client' = s.sftp_client
    /\ is_connected' = s.is_connected
    /\ current_remote_path' = s.current_remote_path
    /\ status_callback' = s.status_callback
    /\ ssh_state' = s.ssh_state
    /\ sftp_state' = s.sftp_state
    /\ nextId' = s.nextId

\* Inputs the call never reads are drawn once: the passphrase check exists
\* only for an encrypted key loaded with a password; the transport's answer
\* only if SSHClient.connect is called, open_sftp's only if that returned,
\* getcwd's only if open_sftp returned; the observer's behaviour only when
\* an observer is registered, and its second invocation only after the
\* 'Connected' notification.
Relevant(observed, in) ==
    LET called == SelectAuth(in.key, in.pw, in.passOk).method \in AuthMethods
        opened == called /\ in.trans = "ok" /\ in.sftpOk
    IN
    /\ (in.passOk \/ (in.key = "encrypted" /\ in.pw))
    /\ (in.trans = "ok" \/ called)
    /\ (in.sftpOk \/ (called /\ in.trans = "ok"))
    /\ (in.cwd = <<>> \/ opened)
    /\ (in.obs = 0 \/ observed)
    /\ (in.obs <= 1 \/ opened)

InputsObserved == {in \in ConnectInputs : Relevant(TRUE, in)}

InputsUnobserved == {in \in ConnectInputs : Relevant(FALSE, in)}

Connect ==
    /\ nextId <= MaxConnects
    /\ \E in \in IF status_callback THEN InputsObserved ELSE InputsUnobserved :
        LET o == ConnectOutcome(Self, in) IN
        /\ Becomes(o.s)
        /\ last' = Call("connect", o.result, o.raised, o.events, nextId,
                        in.key, in.pw)
        /\ UNCHANGED aside

\* ------------------------------------------------------------- disconnect
\* disconnect() without the `if` guards and the try block: close() is called
\* on whatever the attributes hold, and on None the AttributeError escapes.
DisconnectOutcome_Unguarded(s, sftpCloseOk, sshCloseOk, obs) ==
    IF s.sftp_client = 0 \/ s.ssh_client = 0 THEN
        [s |-> s, result |-> "raise", raised |-> "AttributeError",
         events |-> <<"raise:AttributeError">>]
    ELSE
        LET s3 == [s EXCEPT !.sftp_state[s.sftp_client] = "closed",
                            !.ssh_state[s.ssh_client] = "closed",
                            !.sftp_client = 0, !.ssh_client = 0,
                            !.is_connected = FALSE]
        IN [s |-> s3, result |-> "None", raised |-> "none",
            events |-> <<"sftp.close", "ssh.close", "is_connected=False">>]

\* disconnect() with the two blocks in the other order: the SSH transport is
\* closed first, the SFTP channel after it.
DisconnectOutcome_TransportFirst(s, sftpCloseOk, sshCloseOk, obs) ==
    LET caught(st, ev) ==
            [s |-> st, result |-> "None", raised |-> "none", events |-> ev]
        e1 == IF s.ssh_client # 0 THEN <<"ssh.close">> ELSE <<>>
    IN
    IF s.ssh_client # 0 /\ ~sshCloseOk THEN
        caught(s, Append(e1, "raise:close"))
    ELSE
        LET s1 == IF s.ssh_client # 0
                  THEN [s EXCEPT !.ssh_state[s.ssh_client] = "closed",
                                 !.ssh_client = 0]
                  ELSE s
            e2 == IF s1.sftp_client # 0 THEN Append(e1, "sftp.close") ELSE e1
        IN
        IF s1.sftp_client # 0 /\ ~sftpCloseOk THEN
            caught(s1, Append(e2, "raise:close"))
        ELSE
            LET s2 == IF s1.sftp_client # 0
                      THEN [s1 EXCEPT !.sftp_state[s1.sftp_client] = "closed",
                                      !.sftp_client = 0]
                      ELSE s1
                s3 == [s2 EXCEPT !.is_connected = FALSE]
                e3 == Append(e2, "is_connected=False")
            IN
            IF s3.status_callback THEN
                IF obs > 0
                THEN caught(s3, e3 \o <<"notify:Disconnected", "raise:observer">>)
                ELSE caught(s3, Append(e3, "notify:Disconnected"))
            ELSE caught(s3, e3)

\* SFTPClient.disconnect, lines 136-153.  sftpCloseOk / sshCloseOk: whether
\* close() on that handle returns (FALSE: it raises); obs as in connect.
\* A close() that raises leaves its handle as it was.
DisconnectOutcome(s, sftpCloseOk, sshCloseOk, obs) ==
    LET caught(st, ev) ==
            [s |-> st, result |-> "None", raised |-> "none", events |-> ev]
        e1 == IF s.sftp_client # 0 THEN <<"sftp.close">> ELSE <<>>
    IN
    IF s.sftp_client # 0 /\ ~sftpCloseOk THEN
        caught(s, Append(e1, "raise:close"))
    ELSE
        LET s1 == IF s.sftp_client # 0
                  THEN [s EXCEPT !.sftp_state[s.sftp_client] = "closed",
                                 !.sftp_client = 0]
                  ELSE s
            e2 == IF s1.ssh_client # 0 THEN Append(e1, "ssh.close") ELSE e1
        IN
        IF s1.ssh_client # 0 /\ ~sshCloseOk THEN
            caught(s1, Append(e2, "raise:close"))
        ELSE
            LET s2 == IF s1.ssh_client # 0
                      THEN [s1 EXCEPT !.ssh_state[s1.ssh_client] = "closed",
                                      !.ssh_client = 0]
                      ELSE s1
                s3 == [s2 EXCEPT !.is_connected = FALSE]
                e3 == Append(e2, "is_connected=False")
            IN
            IF s3.status_callback THEN
                IF obs > 0
                THEN caught(s3, e3 \o <<"notify:Disconnected", "raise:observer">>)
                ELSE caught(s3, Append(e3, "notify:Disconnected"))
            ELSE caught(s3, e3)

\* A close() outcome is drawn only for a handle that is held, the observer's
\* behaviour only when an observer is registered.
Closing(s, sftpCloseOk, sshCloseOk, obs) ==
    /\ (sftpCloseOk \/ s.sftp_client # 0)
    /\ (sshCloseOk \/ s.ssh_client # 0)
    /\ (obs = 0 \/ s.status_callback)

Disconnect ==
    \E sftpCloseOk \in BOOLEAN, sshCloseOk \in BOOLEAN, obs \in 0..1 :
        LET o == DisconnectOutcome(Self, sftpCloseOk, sshCloseOk, obs) IN
        /\ Closing(Self, sftpCloseOk, sshCloseOk, obs)
        /\ Becomes(o.s)
        /\ last' = Plain("disconnect", o.result, o.raised, o.events)
        /\ UNCHANGED aside

\* SFTPClient.__exit__, lines 477-480.
ExitOutcome(s, sftpCloseOk, sshCloseOk, obs) ==
    IF s.is_connected
    THEN DisconnectOutcome(s, sftpCloseOk, sshCloseOk, obs)
    ELSE [s |-> s, result |-> "None", raised |-> "none", events |-> <<>>]

Exit ==
    \E sftpCloseOk \in BOOLEAN, sshCloseOk \in BOOLEAN, obs \in 0..1 :
        LET o == ExitOutcome(Self, sftpCloseOk, sshCloseOk, obs) IN
        /\ Closing(Self, sftpCloseOk, sshCloseOk, obs)
        /\ Becomes(o.s)
        /\ last' = Plain("exit", o.result, o.raised, o.events)
        /\ UNCHANGED aside

\* SFTPClient.set_status_callback, lines 469-471 (None unregisters).
SetStatusCallback ==
    /\ \E cb \in BOOLEAN : status_callback' = cb
    /\ last' = Plain("set_status_callback", "None", "none", <<>>)
    /\ UNCHANGED <<ssh_client, sftp_client, is_connected, current_remote_path,
                   ssh_state, sftp_state, nextId>>
    /\ UNCHANGED aside

\* ------------------------------------------------------ remote operations
Raised(s, exc, events) ==
    [s |-> s, result |-> "raise", raised |-> exc, events |-> events]

Returned(s, result, events) ==
    [s |-> s, result |-> result, raised |-> "none", events |-> events]

\* One request on self.sftp_client inside a method's try block: the request
\* is issued only if the attribute holds a handle (on None the attribute
\* lookup raises AttributeError before anything is sent).
Request(s, name) ==
    IF s.sftp_client # 0 THEN <<name>> ELSE <<"raise:AttributeError">>

Succeeds(s, ok) == s.sftp_client # 0 /\ ok

\* SFTPClient.list_remote_directory, lines 155-191 (the except re-raises).
ListRemoteDirectory(s, ok) ==
    IF ~s.is_connected THEN Raised(s, "ConnectionError", <<>>)
    ELSE IF Succeeds(s, ok) THEN Returned(s, "list", Request(s, "sftp.listdir_attr"))
    ELSE Raised(s, "Exception", Request(s, "sftp.listdir_attr"))

\* ResolveRemote without the `or '/'` of line 250: the parent of a
\* first-level directory is the empty string.
ResolveRemote_NoRootDefault(cur, tok) ==
    IF tok = DOTDOT THEN
        LET current_parts == Split(RStrip(cur)) IN
        IF Len(current_parts) > 1
        THEN Join(Front(current_parts))
        ELSE SLASH
    ELSE IF StartsWithSlash(tok) THEN tok
    ELSE RStrip(cur) \o SLASH \o tok

\* Lines 244-258 of change_remote_directory: the path the token resolves to.
ResolveRemote_NoRStrip(cur, tok) ==
    IF tok = DOTDOT THEN
        LET current_parts == Split(RStrip(cur)) IN
        IF Len(current_parts) > 1 THEN OrRoot(Join(Front(current_parts))) ELSE SLASH
    ELSE IF StartsWithSlash(tok) THEN tok
    ELSE cur \o SLASH \o tok

ResolveRemote(cur, tok) ==
    IF tok = DOTDOT THEN
        LET current_parts == Split(RStrip(cur)) IN
        IF Len(current_parts) > 1
        THEN OrRoot(Join(Front(current_parts)))
        ELSE SLASH
    ELSE IF StartsWithSlash(tok) THEN tok
    ELSE RStrip(cur) \o SLASH \o tok

\* SFTPClient.change_remote_directory, lines 231-267.
\* change_remote_directory() assigning the cursor before it lists the target.
ChangeRemoteDirectory_AssignsBeforeListing(s, tok, ok) ==
    IF ~s.is_connected THEN Raised(s, "ConnectionError", <<>>)
    ELSE LET moved == [s EXCEPT !.current_remote_path =
                                    ResolveRemote(s.current_remote_path, tok)]
         IN IF Succeeds(s, ok)
            THEN Returned(moved, "True", Request(s, "sftp.listdir"))
            ELSE Returned(moved, "False", Request(s, "sftp.listdir"))

ChangeRemoteDirectory(s, tok, ok) ==
    IF ~s.is_connected THEN Raised(s, "ConnectionError", <<>>)
    ELSE IF Succeeds(s, ok)
    THEN Returned([s EXCEPT !.current_remote_path =
                                ResolveRemote(s.current_remote_path, tok)],
                  "True", Request(s, "sftp.listdir"))
    ELSE Returned(s, "False", Request(s, "sftp.listdir"))

\* What sits at upload_file's local_path: nothing, a regular file, or
\* something else that exists (a directory, a device, a FIFO).
LocalKinds == {"absent", "file", "other"}

\* How sftp_client.put / sftp_client.get end: they return, or raise because
\* the remote side denies access, the connection drops mid-transfer, or the
\* local disk fails; get also raises when the remote source is missing.
PutOutcomes == {"ok", "raise:PermissionError", "raise:EOFError", "raise:OSError"}
GetOutcomes == PutOutcomes \cup {"raise:FileNotFoundError"}

\* The put/get call and the return statement that follows it: True when the
\* call returns, False from `except Exception` when it raises.
Transfer(s, before, name, outcome) ==
    IF s.sftp_client = 0
    THEN Returned(s, "False", before \o <<"raise:AttributeError">>)
    ELSE IF outcome = "ok" THEN Returned(s, "True", before \o <<name>>)
    ELSE Returned(s, "False", before \o <<name, outcome>>)

\* upload_file() without the is_connected check of lines 313-314.
UploadFile_NoConnectedCheck(s, local, outcome) ==
    IF local = "absent"
    THEN Returned(s, "False", <<"os.path.exists", "raise:FileNotFoundError">>)
    ELSE Transfer(s, <<"os.path.exists", "os.path.getsize">>, "sftp.put", outcome)

\* upload_file() looking for the local file only after the put.
UploadFile_PutBeforeExists(s, local, outcome) ==
    IF ~s.is_connected THEN Raised(s, "ConnectionError", <<>>)
    ELSE IF local = "absent"
    THEN Returned(s, "False",
                  <<"sftp.put", "os.path.exists", "raise:FileNotFoundError">>)
    ELSE Transfer(s, <<"os.path.exists", "os.path.getsize">>, "sftp.put", outcome)

\* SFTPClient.upload_file, lines 300-334.  The only test of local_path is
\* os.path.exists (line 317); whatever exists is handed to put.
UploadFile(s, local, outcome) ==
    IF ~s.is_connected THEN Raised(s, "ConnectionError", <<>>)
    ELSE IF local = "absent"
    THEN Returned(s, "False", <<"os.path.exists", "raise:FileNotFoundError">>)
    ELSE Transfer(s, <<"os.path.exists", "os.path.getsize">>, "sftp.put", outcome)

\* download_file() removing the partial local file when get raises.
DownloadFile_RemovesPartial(s, mkdir, outcome) ==
    IF ~s.is_connected THEN Raised(s, "ConnectionError", <<>>)
    ELSE IF mkdir = "fail"
    THEN Returned(s, "False", <<"os.makedirs", "raise:OSError">>)
    ELSE LET before == IF mkdir = "ok" THEN <<"os.makedirs">> ELSE <<>>
             o == Transfer(s, before, "sftp.get", outcome)
         IN IF o.result = "False" /\ s.sftp_client # 0
            THEN Returned(s, "False", Append(o.events, "os.remove"))
            ELSE o

\* SFTPClient.download_file, lines 336-370.  mkdir: "no" (the local parent
\* exists), "ok" or "fail" (os.makedirs returns or raises).
DownloadFile(s, mkdir, outcome) ==
    IF ~s.is_connected THEN Raised(s, "ConnectionError", <<>>)
    ELSE IF mkdir = "fail"
    THEN Returned(s, "False", <<"os.makedirs", "raise:OSError">>)
    ELSE Transfer(s, IF mkdir = "ok" THEN <<"os.makedirs">> ELSE <<>>,
                  "sftp.get", outcome)

\* The single-request methods: one request in a try block, True on success,
\* False (None for get_remote_file_info) when it raises.
SingleShot(s, name, ok, failure) ==
    IF ~s.is_connected THEN Raised(s, "ConnectionError", <<>>)
    ELSE IF Succeeds(s, ok) THEN Returned(s, "True", Request(s, name))
    ELSE Returned(s, failure, Request(s, name))

\* SFTPClient.delete_remote_file, lines 372-392.
DeleteRemoteFile(s, ok) == SingleShot(s, "sftp.remove", ok, "False")

\* SFTPClient.create_remote_directory, lines 394-414.
CreateRemoteDirectory(s, ok) == SingleShot(s, "sftp.mkdir", ok, "False")

\* SFTPClient.delete_remote_directory, lines 416-436.
DeleteRemoteDirectory(s, ok) == SingleShot(s, "sftp.rmdir", ok, "False")

\* SFTPClient.get_remote_file_info, lines 438-463 (a dict on success).
GetRemoteFileInfo(s, ok) ==
    IF ~s.is_connected THEN Raised(s, "ConnectionError", <<>>)
    ELSE IF Succeeds(s, ok) THEN Returned(s, "dict", Request(s, "sftp.stat"))
    ELSE Returned(s, "None", Request(s, "sftp.stat"))

Tokens == Str(MaxTokLen) \cup {DOTDOT}

Did(op, o) ==
    /\ Becomes(o.s)
    /\ last' = Plain(op, o.result, o.raised, o.events)
    /\ UNCHANGED aside

ListRemote ==
    \E ok \in BOOLEAN : Did("list_remote_directory", ListRemoteDirectory(Self, ok))

ChangeRemote ==
    \E tok \in Tokens, ok \in BOOLEAN :
        /\ Len(ResolveRemote(current_remote_path, tok)) <= MaxPathLen
        /\ Did("change_remote_directory", ChangeRemoteDirectory(Self, tok, ok))

Upload ==
    \E local \in LocalKinds, outcome \in PutOutcomes :
        LET o == UploadFile(Self, local, outcome) IN
        /\ Becomes(o.s)
        /\ last' = [Plain("upload_file", o.result, o.raised, o.events)
                       EXCEPT !.local = local]
        /\ UNCHANGED aside

Download ==
    \E mkdir \in {"no", "ok", "fail"}, outcome \in GetOutcomes :
        Did("download_file", DownloadFile(Self, mkdir, outcome))

DeleteFile ==
    \E ok \in BOOLEAN : Did("delete_remote_file", DeleteRemoteFile(Self, ok))

CreateDirectory ==
    \E ok \in BOOLEAN :
        Did("create_remote_directory", CreateRemoteDirectory(Self, ok))

DeleteDirectory ==
    \E ok \in BOOLEAN :
        Did("delete_remote_directory", DeleteRemoteDirectory(Self, ok))

FileInfo ==
    \E ok \in BOOLEAN : Did("get_remote_file_info", GetRemoteFileInfo(Self, ok))

RemoteOps ==
    {"list_remote_directory", "change_remote_directory", "upload_file",
     "download_file", "delete_remote_file", "create_remote_directory",
     "delete_remote_directory", "get_remote_file_info"}

Next ==
    \/ Connect
    \/ Disconnect
    \/ Exit
    \/ SetStatusCallback
    \/ ListRemote
    \/ ChangeRemote
    \/ Upload
    \/ Download
    \/ DeleteFile
    \/ CreateDirectory
    \/ DeleteDirectory
    \/ FileInfo

Spec == Init /\ [][Next]_vars

\* ---------------------------------------------------------- path resolution
\* The path arithmetic of change_remote_directory and of the remote panel's
\* go_up, computed on its own for every absolute cursor and every token.
\* Two name characters, so that a segment can be told from its neighbour.
PathChars == {"/", "a", "b"}

StrOver(cs, n) == UNION {[1..k -> cs] : k \in 0..n}

\* Absolute cursors: what connect() and change_remote_directory store.
Cursors == {c \in StrOver(PathChars, MaxCursorLen) : StartsWithSlash(c)}

PathTokens == StrOver(PathChars, MaxTokLen) \cup {DOTDOT}

GoUpParent_NoRootDefault(cur) == Join(Front(Split(RStrip(cur))))

\* FileListFrame.go_up:
\*   parent_path = "/".join(self.current_path.rstrip("/").split("/")[:-1]) or "/"
GoUpParent(cur) == OrRoot(Join(Front(Split(RStrip(cur)))))

InitResolve ==
    /\ Fresh
    /\ resolve \in [pc : {"ready"}, cursor : Cursors, token : PathTokens]
    /\ listing = Idle
    /\ xfer = Idle
    /\ nav = Idle
    /\ app = Idle

\* The session does not move while one resolution is computed.
Session == <<ssh_client, sftp_client, is_connected, current_remote_path,
             status_callback, ssh_state, sftp_state, nextId, last>>

\* change_remote_directory(token) from the cursor: the new_path it computes.
ResolveToken ==
    /\ resolve.pc = "ready"
    /\ resolve' = [pc |-> "done", via |-> "change_remote_directory",
                   cursor |-> resolve.cursor, token |-> resolve.token,
                   parent |-> <<>>,
                   result |-> ResolveRemote(resolve.cursor, resolve.token)]
    /\ UNCHANGED <<Session, listing, xfer, nav, app>>

\* go_up on a panel showing the cursor: the parent_path it computes and the
\* new_path change_remote_directory(parent_path) computes from it.
GoUp ==
    /\ resolve.pc = "ready"
    /\ LET parent_path == GoUpParent(resolve.cursor) IN
       resolve' = [pc |-> "done", via |-> "go_up",
                   cursor |-> resolve.cursor, token |-> resolve.token,
                   parent |-> parent_path,
                   result |-> ResolveRemote(resolve.cursor, parent_path)]
    /\ UNCHANGED <<Session, listing, xfer, nav, app>>

NextResolve ==
    \/ ResolveToken
    \/ GoUp

SpecResolve == InitResolve /\ [][NextResolve]_vars

\* ------------------------------------------------------ directory listings
\* list_remote_directory and list_local_directory on the raw entries the
\* backing store returns, in the order it returns them.
Names == {<<"a">>, <<"B">>, <<"b">>, <<"A", "b">>}

\* Code points, as Python compares characters.
Ord(c) == CASE c = "A" -> 65 [] c = "B" -> 66 [] c = "a" -> 97 [] c = "b" -> 98

\* str.lower()
Lower(name) ==
    [i \in 1..Len(name) |->
        CASE name[i] = "A" -> "a" [] name[i] = "B" -> "b" [] OTHER -> name[i]]

\* s < t on Python strings
StrLess(s, t) ==
    \E k \in 1..(Len(s) + 1) :
        /\ k <= Len(t)
        /\ \A j \in 1..(k - 1) : s[j] = t[j]
        /\ k = Len(s) + 1 \/ Ord(s[k]) < Ord(t[k])

\* Raw remote entries (SFTPAttributes): st_size -1 stands for None and kind
\* "none" for st_mode None.  Raw local entries (os.stat) always have both.
RemoteItems == [name : Names, st_size : {-1, 0, 4096}, kind : {"dir", "reg", "none"}]
LocalItems  == [name : Names, st_size : {0, 4096}, kind : {"dir", "reg"}]

\* A directory holds each name once.
Directory(items) ==
    UNION {{d \in [1..k -> items] :
               \A i, j \in 1..k : i # j => d[i].name # d[j].name} :
           k \in 0..MaxEntries}

RemoteDirectories == Directory(RemoteItems)
LocalDirectories  == Directory(LocalItems)

\* 'size': item.st_size or 0
SizeOrZero(st_size) == IF st_size = -1 THEN 0 ELSE st_size

\* file_info of list_remote_directory
RemoteFileInfo(item) ==
    [name |-> item.name,
     size |-> SizeOrZero(item.st_size),
     is_directory |-> item.kind = "dir",
     is_file |-> item.kind = "reg"]

\* file_info of list_local_directory
LocalFileInfo(item) ==
    [name |-> item.name,
     size |-> item.st_size,
     is_directory |-> item.kind = "dir",
     is_file |-> item.kind = "reg"]

KeyLess_CaseSensitive(x, y) ==
    \/ x.is_directory /\ ~y.is_directory
    \/ x.is_directory = y.is_directory /\ StrLess(x.name, y.name)

\* key(x) < key(y) for key=lambda x: (not x['is_directory'], x['name'].lower())
KeyLess(x, y) ==
    \/ x.is_directory /\ ~y.is_directory
    \/ x.is_directory = y.is_directory /\ StrLess(Lower(x.name), Lower(y.name))

\* x goes before the first element with a greater key: list.sort is stable.
Insert(sorted, x) ==
    LET after == {i \in 1..Len(sorted) : KeyLess(x, sorted[i])}
        at    == IF after = {} THEN Len(sorted) + 1
                 ELSE CHOOSE i \in after : \A j \in after : i <= j
    IN SubSeq(sorted, 1, at - 1) \o <<x>> \o SubSeq(sorted, at, Len(sorted))

\* files.sort(key=...)
RECURSIVE Sort(_)
Sort(files) ==
    IF files = <<>> THEN <<>>
    ELSE Insert(Sort(Front(files)), files[Len(files)])

\* The body of either listing: build file_info per entry, sort, return; an
\* exception of the backing store is logged and raised again.
ListDirectory(raw, readable, side) ==
    IF ~readable THEN [pc |-> "done", side |-> side, raw |-> raw,
                       result |-> "raise", files |-> <<>>]
    ELSE [pc |-> "done", side |-> side, raw |-> raw, result |-> "list",
          files |-> Sort([i \in 1..Len(raw) |->
                            IF side = "remote" THEN RemoteFileInfo(raw[i])
                            ELSE LocalFileInfo(raw[i])])]

InitListing ==
    /\ Fresh
    /\ resolve = Idle
    /\ listing \in [pc : {"ready"}, side : {"remote"}, raw : RemoteDirectories]
                \cup [pc : {"ready"}, side : {"local"}, raw : LocalDirectories]
    /\ xfer = Idle
    /\ nav = Idle
    /\ app = Idle

\* list_remote_directory from its try block on (the session is connected)
ListRemoteEntries ==
    /\ listing.pc = "ready"
    /\ listing.side = "remote"
    /\ \E readable \in BOOLEAN :
           listing' = ListDirectory(listing.raw, readable, "remote")
    /\ UNCHANGED <<Session, resolve, xfer, nav, app>>

\* list_local_directory
ListLocalEntries ==
    /\ listing.pc = "ready"
    /\ listing.side = "local"
    /\ \E readable \in BOOLEAN :
           listing' = ListDirectory(listing.raw, readable, "local")
    /\ UNCHANGED <<Session, resolve, xfer, nav, app>>

NextListing ==
    \/ ListRemoteEntries
    \/ ListLocalEntries

SpecListing == InitListing /\ [][NextListing]_vars

\* ------------------------------------------------- one transfer, in chunks
\* upload_file / download_file while put / get runs: paramiko moves the file
\* chunk by chunk and, after each chunk, calls the callback it was given
\* with the bytes moved so far and the size it measured at the start; the
\* call happens inside put / get, on the thread that called it.  Sizes are
\* counted in chunks.  The observer passed as progress_callback is nothing,
\* some callable, or the update_progress of a ProgressDialog whose Cancel
\* button the user may press at any time.
Observers == {"none", "callable", "dialog"}

\* ProgressDialog.update_progress: nothing once cancelled, else the count is
\* stored and shown.
UpdateProgress(x, transferred, total) ==
    IF x.cancelled THEN x ELSE [x EXCEPT !.shown = transferred]

ProgressWrapper_SwapsArguments(x, transferred, total) ==
    IF x.explicit # "none" THEN
        LET y == [x EXCEPT !.delivered =
                      Append(@, [to |-> "progress_callback",
                                 transferred |-> total, total |-> transferred])]
        IN IF x.explicit = "dialog" THEN UpdateProgress(y, total, transferred)
           ELSE y
    ELSE IF x.registered THEN
        [x EXCEPT !.delivered =
            Append(@, [to |-> "self.progress_callback",
                       transferred |-> total, total |-> transferred])]
    ELSE x

\* progress_wrapper of upload_file (lines 322-326) and download_file
\* (358-362): the explicit observer if one was passed, else the registered
\* one, else nobody.
ProgressWrapper(x, transferred, total) ==
    IF x.explicit # "none" THEN
        LET y == [x EXCEPT !.delivered =
                      Append(@, [to |-> "progress_callback",
                                 transferred |-> transferred, total |-> total])]
        IN IF x.explicit = "dialog" THEN UpdateProgress(y, transferred, total)
           ELSE y
    ELSE IF x.registered THEN
        [x EXCEPT !.delivered =
            Append(@, [to |-> "self.progress_callback",
                       transferred |-> transferred, total |-> total])]
    ELSE x

\* The session the transfer runs on: a new client after one connect() with a
\* password, which succeeded or failed.
PasswordLogins ==
    {in \in InputsUnobserved : in.key = "none" /\ in.pw /\ in.cwd = <<>>}

FreshSelf ==
    [ssh_client |-> 0, sftp_client |-> 0, is_connected |-> FALSE,
     current_remote_path |-> SLASH, status_callback |-> FALSE,
     ssh_state |-> [i \in Ids |-> "none"],
     sftp_state |-> [i \in Ids |-> "none"], nextId |-> 1]

InitTransfer ==
    /\ \E in \in PasswordLogins :
           LET o == ConnectOutcome(FreshSelf, in) IN
           /\ ssh_client = o.s.ssh_client
           /\ sftp_client = o.s.sftp_client
           /\ is_connected = o.s.is_connected
           /\ current_remote_path = o.s.current_remote_path
           /\ status_callback = o.s.status_callback
           /\ ssh_state = o.s.ssh_state
           /\ sftp_state = o.s.sftp_state
           /\ nextId = o.s.nextId
           /\ last = Call("connect", o.result, o.raised, o.events, 1,
                          in.key, in.pw)
    /\ resolve = Idle
    /\ listing = Idle
    /\ xfer \in [pc : {"ready"}, op : {"upload_file", "download_file"},
                  explicit : Observers, registered : BOOLEAN,
                  total : 0..MaxChunks, sent : {0}, delivered : {<<>>},
                  cancelled : {FALSE}, cancel_at : {-1}, shown : {0},
                  result : {"none"}]
    /\ nav = Idle
    /\ app = Idle

\* The method up to the put / get call: the is_connected check raises
\* ConnectionError; a missing local file (upload) or a parent directory that
\* cannot be made (download) ends the call with False.
Start ==
    /\ xfer.pc = "ready"
    /\ \E prepared \in BOOLEAN :
           xfer' = IF ~is_connected
                   THEN [xfer EXCEPT !.pc = "returned", !.result = "raise"]
                   ELSE IF ~prepared \/ sftp_client = 0
                   THEN [xfer EXCEPT !.pc = "returned", !.result = "False"]
                   ELSE [xfer EXCEPT !.pc = "running"]
    /\ UNCHANGED <<Session, resolve, listing, nav, app>>

\* put / get moves one more chunk and calls progress_wrapper.
Chunk ==
    /\ xfer.pc = "running"
    /\ xfer.sent < xfer.total
    /\ xfer' = ProgressWrapper([xfer EXCEPT !.sent = @ + 1],
                               xfer.sent + 1, xfer.total)
    /\ UNCHANGED <<Session, resolve, listing, nav, app>>

\* put / get raises (permission, connection, disk): except, return False.
Fail ==
    /\ xfer.pc = "running"
    /\ xfer' = [xfer EXCEPT !.pc = "returned", !.result = "False"]
    /\ UNCHANGED <<Session, resolve, listing, nav, app>>

\* put / get returns after the last chunk: return True.
Finish ==
    /\ xfer.pc = "running"
    /\ xfer.sent = xfer.total
    /\ xfer' = [xfer EXCEPT !.pc = "returned", !.result = "True"]
    /\ UNCHANGED <<Session, resolve, listing, nav, app>>

\* ProgressDialog.cancel: the flag is set and the window destroyed.  Nothing
\* of the transfer is touched.  cancel_at remembers how far a running
\* transfer was when the button was pressed.
Cancel ==
    /\ xfer.explicit = "dialog"
    /\ ~xfer.cancelled
    /\ xfer' = [xfer EXCEPT !.cancelled = TRUE,
                            !.cancel_at = IF xfer.pc = "running"
                                          THEN xfer.sent ELSE @]
    /\ UNCHANGED <<Session, resolve, listing, nav, app>>

NextTransfer ==
    \/ Start
    \/ Chunk
    \/ Fail
    \/ Finish
    \/ Cancel

SpecTransfer == InitTransfer /\ [][NextTransfer]_vars

\* -------------------------------------------------------------- navigation
\* The remote panel (FileListFrame with is_remote) driving the session's
\* change_remote_directory, and the session's change_local_directory.

\* os.path.dirname (posixpath)
Dirname(p) ==
    LET cut  == {i \in 1..Len(p) : p[i] = "/"}
        i    == IF cut = {} THEN 0 ELSE CHOOSE k \in cut : \A j \in cut : j <= k
        head == SubSeq(p, 1, i)
    IN IF head # <<>> /\ RStrip(head) # <<>> THEN RStrip(head) ELSE head

\* os.path.join (posixpath), two arguments
PathJoin(a, b) ==
    IF StartsWithSlash(b) THEN b
    ELSE IF a = <<>> \/ a[Len(a)] = "/" THEN a \o b
    ELSE a \o SLASH \o b

\* os.path.abspath of an absolute path: posixpath.normpath, which drops
\* empty parts and keeps a leading '//' when it is exactly two slashes.
\* (The paths here hold no '.' or '..' part.)
AbsPath(p) ==
    LET two == Len(p) >= 2 /\ p[2] = "/" /\ ~(Len(p) >= 3 /\ p[3] = "/")
        comps == SelectSeq(Split(p), LAMBDA c : c # <<>>)
    IN (IF two THEN <<"/", "/">> ELSE SLASH) \o Join(comps)

\* SFTPClient.change_local_directory, lines 269-298, on the local cursor.
ChangeLocalDirectory(cur, tok, isdir) ==
    LET new_path == IF tok = DOTDOT THEN Dirname(cur)
                    ELSE IF StartsWithSlash(tok) THEN tok
                    ELSE PathJoin(cur, tok)
    IN IF isdir THEN [local |-> AbsPath(new_path), result |-> "True"]
       ELSE [local |-> cur, result |-> "False"]

\* FileListFrame.change_directory, remote branch.
PanelChangeDirectory(s, path, ok) ==
    IF s.is_connected THEN ChangeRemoteDirectory(s, path, ok)
    ELSE Returned(s, "False", <<>>)

\* What on_path_change, go_up and on_double_click do with the answer: on
\* True the panel keeps the path it asked for and refreshes its list.
PanelMoves(op, path, ok) ==
    LET o == PanelChangeDirectory(Self, path, ok) IN
    /\ Len(o.s.current_remote_path) <= MaxPathLen
    /\ Len(path) <= MaxPathLen
    /\ Becomes(o.s)
    /\ nav' = [nav EXCEPT !.asked = path,
                          !.panel = IF o.result = "True" THEN path ELSE @]
    /\ last' = Plain(op, o.result, o.raised,
                     IF o.result = "True"
                     THEN Append(o.events, "sftp.listdir_attr") ELSE o.events)
    /\ UNCHANGED <<resolve, listing, xfer, app>>

LocalStarts == {SLASH, <<"/", "a">>}

\* A session right after a successful connect with a password, the remote
\* panel set to its cursor by set_sftp_client.
InitNavigate ==
    /\ \E in \in {i \in InputsUnobserved : i.key = "none" /\ i.pw} :
           LET o == ConnectOutcome(FreshSelf, in) IN
           /\ o.result = "True"
           /\ ssh_client = o.s.ssh_client
           /\ sftp_client = o.s.sftp_client
           /\ is_connected = o.s.is_connected
           /\ current_remote_path = o.s.current_remote_path
           /\ status_callback = o.s.status_callback
           /\ ssh_state = o.s.ssh_state
           /\ sftp_state = o.s.sftp_state
           /\ nextId = o.s.nextId
           /\ last = Call("connect", o.result, o.raised, o.events, 1,
                          in.key, in.pw)
           /\ \E start \in LocalStarts :
                  nav = [panel |-> o.s.current_remote_path, local |-> start,
                         asked |-> <<>>]
    /\ resolve = Idle
    /\ listing = Idle
    /\ xfer = Idle
    /\ app = Idle

\* FileListFrame.on_path_change: the text typed in the path entry
TypePath ==
    \E tok \in Tokens, ok \in BOOLEAN : PanelMoves("on_path_change", tok, ok)

\* FileListFrame.go_up
PanelGoUp ==
    \E ok \in BOOLEAN : PanelMoves("go_up", GoUpParent(nav.panel), ok)

\* FileListFrame.on_double_click on a directory row named 'a'
DoubleClick ==
    \E ok \in BOOLEAN :
        PanelMoves("on_double_click", RStrip(nav.panel) \o SLASH \o <<"a">>, ok)

\* SFTPClient.change_local_directory
ChangeLocal ==
    \E tok \in Tokens, isdir \in BOOLEAN :
        LET o == ChangeLocalDirectory(nav.local, tok, isdir) IN
        /\ Len(o.local) <= MaxPathLen
        /\ nav' = [nav EXCEPT !.asked = tok, !.local = o.local]
        /\ last' = Plain("change_local_directory", o.result, "none",
                         <<"os.path.isdir">>)
        /\ UNCHANGED <<ssh_client, sftp_client, is_connected,
                       current_remote_path, status_callback, ssh_state,
                       sftp_state, nextId, resolve, listing, xfer, app>>

NextNavigate ==
    \/ TypePath
    \/ PanelGoUp
    \/ DoubleClick
    \/ ChangeLocal

SpecNavigate == InitNavigate /\ [][NextNavigate]_vars

\* ------------------------------------------------------------- application
\* SFTPClientApp (main_app.py): the Tk thread handling user actions and the
\* callbacks deferred with root.after, one connect thread and one transfer
\* thread at a time, all on one shared SFTPClient.  A call a worker thread
\* makes on the session takes two steps, its start and its return (where the
\* method's effect is applied); calls made on the Tk thread take one.

\* What connect() is given by the application and meets: a password that
\* the server accepts or rejects, no observer failure (the observer is the
\* application's own update_status).
AppLogins ==
    {in \in InputsObserved :
        /\ in.key = "none" /\ in.pw /\ in.cwd = <<>> /\ in.obs = 0
        /\ in.trans \in {"ok", "auth_fail"} /\ in.sftpOk}

\* How a transfer of the application ends: it completes, or the connection
\* drops.
AppOutcomes == {"ok", "raise:EOFError"}

LocalDirs == {"dir1", "dir2"}

\* SFTPClientApp.__init__, lines 24-51, and the widgets of create_gui.
InitApp ==
    /\ ssh_client = 0
    /\ sftp_client = 0
    /\ is_connected = FALSE
    /\ current_remote_path = SLASH
    /\ status_callback = TRUE
    /\ ssh_state = [i \in Ids |-> "none"]
    /\ sftp_state = [i \in Ids |-> "none"]
    /\ nextId = 1
    /\ last = Plain("set_status_callback", "None", "none", <<>>)
    /\ resolve = Idle
    /\ listing = Idle
    /\ xfer = Idle
    /\ nav = Idle
    /\ app = [is_connected |-> FALSE, current_connection |-> FALSE,
              indicator |-> "Disconnected", status |-> "Ready",
              error |-> "none", panel_client |-> FALSE, local_dir |-> "dir1",
              connect_thread |-> "none", transfer_thread |-> "none",
              upload |-> FALSE, todo |-> 0, batch_dir |-> "dir1",
              used_dir |-> "dir1", results |-> <<>>, batches |-> 0,
              queue |-> <<>>, others |-> 0]

\* Session operations running in worker threads right now.
InFlight ==
    (IF app.connect_thread = "calling" THEN 1 ELSE 0)
        + (IF app.transfer_thread = "calling" THEN 1 ELSE 0)

\* The status observer is update_status: the last notification of a session
\* call is the text the status bar is left with.
StatusAfter(old, events) ==
    LET notices == {i \in 1..Len(events) :
                       events[i] \in {"notify:Connected",
                                      "notify:Authentication failed",
                                      "notify:Connection error",
                                      "notify:Connection failed",
                                      "notify:Disconnected"}}
    IN IF notices = {} THEN old
       ELSE events[CHOOSE i \in notices : \A j \in notices : j <= i]

\* A step of the application that runs or completes a call on the session.
OnSession(o, call, newApp) ==
    /\ Becomes(o.s)
    /\ last' = call
    /\ app' = newApp
    /\ UNCHANGED <<resolve, listing, xfer, nav>>

\* A step of the application that leaves the session alone.
OffSession(newApp) ==
    /\ app' = newApp
    /\ UNCHANGED <<Session, resolve, listing, xfer, nav>>

\* connect_with_params: the thread is started, whatever else is running.
\* (One connect thread at a time is explored.)
ClickConnect ==
    /\ app.connect_thread = "none"
    /\ nextId <= MaxConnects
    /\ OffSession([app EXCEPT !.connect_thread = "started"])

\* connect_thread, lines 235-236: the status text, then into connect().
ConnectBegin ==
    /\ app.connect_thread = "started"
    /\ OffSession([app EXCEPT !.connect_thread = "calling",
                              !.status = "Connecting...",
                              !.others = InFlight])

\* connect_thread, lines 236-253: connect() returns; on success the flags
\* are set on this thread and on_connected is deferred to the Tk thread.
ConnectEnd ==
    /\ app.connect_thread = "calling"
    /\ \E in \in AppLogins :
           LET o == ConnectOutcome(Self, in)
               a == [app EXCEPT !.connect_thread = "none",
                                !.status = StatusAfter(@, o.events)]
           IN OnSession(o, Call("connect", o.result, o.raised, o.events,
                                nextId, in.key, in.pw),
                        IF o.result = "True"
                        THEN [a EXCEPT !.is_connected = TRUE,
                                       !.current_connection = TRUE,
                                       !.queue = Append(@, "on_connected")]
                        ELSE [a EXCEPT !.queue =
                                  Append(@, "status:Connection failed")])

\* FileListFrame.refresh_list of the remote panel, run on the Tk thread: it
\* calls list_remote_directory if the panel has a connected client; what is
\* listed changes nothing of the session.
RemoteRefresh(a, ok) ==
    IF a.panel_client /\ is_connected
    THEN LET o == ListRemoteDirectory(Self, ok) IN
         OnSession(o, Plain("list_remote_directory", o.result, o.raised, o.events),
                   [a EXCEPT !.others = InFlight])
    ELSE OffSession(a)

\* on_connected, lines 257-262.  With current_connection None the subscript
\* in the second statement raises TypeError and the rest does not run.
OnConnected(a, ok) ==
    LET shown == [a EXCEPT !.indicator = "Connected"] IN
    IF ~a.current_connection
    THEN OffSession([shown EXCEPT !.error = "on_connected:TypeError"])
    ELSE RemoteRefresh([shown EXCEPT !.status = "Connected to host",
                                     !.panel_client = TRUE], ok)

\* The Tk thread runs the oldest deferred callback.
RunDeferred ==
    /\ app.queue # <<>>
    /\ \E ok \in BOOLEAN :
           LET job  == Head(app.queue)
               rest == [app EXCEPT !.queue = Tail(@)]
           IN IF job = "on_connected" THEN OnConnected(rest, ok)
              ELSE IF job = "refresh_all"
              THEN IF rest.is_connected THEN RemoteRefresh(rest, ok)
                   ELSE OffSession(rest)
              ELSE OffSession([rest EXCEPT !.status =
                     IF job = "status:Connection failed" THEN "Connection failed"
                     ELSE IF job = "status:Transfer completed"
                     THEN "Transfer completed"
                     ELSE "Transfer failed"])

\* SFTPClientApp.disconnect, lines 264-273, on the Tk thread.
ClickDisconnect ==
    /\ app.is_connected
    /\ LET o == DisconnectOutcome(Self, TRUE, TRUE, 0) IN
           /\ OnSession(o, Plain("disconnect", o.result, o.raised, o.events),
                        [app EXCEPT !.is_connected = FALSE,
                                    !.current_connection = FALSE,
                                    !.indicator = "Disconnected",
                                    !.status = "Disconnected",
                                    !.panel_client = FALSE,
                                    !.others = InFlight])

\* upload_files / download_files, lines 275-299, and the start of the
\* thread in transfer_files: only the file names are handed over.
\* batch_dir remembers the local panel's directory at this moment.
ClickTransfer ==
    /\ app.is_connected
    /\ app.transfer_thread = "none"
    /\ app.batches < MaxBatches
    /\ \E upload \in BOOLEAN, n \in 1..MaxFiles :
           OffSession([app EXCEPT !.transfer_thread = "looping",
                                  !.upload = upload, !.todo = n,
                                  !.results = <<>>,
                                  !.batch_dir = app.local_dir,
                                  !.batches = @ + 1])

\* transfer_thread, lines 306-316, for the next file: the paths are built
\* from the panels' current paths as they are now; an upload whose local
\* path is not a regular file is skipped; else into upload_file or
\* download_file.
TransferBegin ==
    /\ app.transfer_thread = "looping"
    /\ app.todo > 0
    /\ \E isfile \in BOOLEAN :
           /\ isfile \/ app.upload
           /\ OffSession(
                  IF app.upload /\ ~isfile
                  THEN [app EXCEPT !.todo = @ - 1, !.used_dir = app.local_dir]
                  ELSE [app EXCEPT !.transfer_thread = "calling",
                                   !.used_dir = app.local_dir,
                                   !.others = InFlight])

\* The call returns; its result is dropped (kept here in results to be
\* looked at).  A ConnectionError leaves the loop for `except Exception`,
\* which defers 'Transfer failed'.
TransferEnd ==
    /\ app.transfer_thread = "calling"
    /\ \E outcome \in AppOutcomes :
           /\ LET o == IF app.upload THEN UploadFile(Self, "file", outcome)
                       ELSE DownloadFile(Self, "no", outcome)
                  call == IF app.upload
                          THEN [Plain("upload_file", o.result, o.raised, o.events)
                                   EXCEPT !.local = "file"]
                          ELSE Plain("download_file", o.result, o.raised, o.events)
              IN OnSession(o, call,
                     IF o.raised # "none"
                     THEN [app EXCEPT !.transfer_thread = "none",
                                      !.queue = Append(@, "status:Transfer failed")]
                     ELSE [app EXCEPT !.transfer_thread = "looping",
                                      !.todo = @ - 1,
                                      !.results =
                                          Append(@, [result |-> o.result,
                                                     dir |-> app.used_dir])])

\* transfer_thread, lines 318-320: after the loop, whatever the calls
\* returned.
TransferExit ==
    /\ app.transfer_thread = "looping"
    /\ app.todo = 0
    /\ OffSession([app EXCEPT !.transfer_thread = "none",
                              !.queue = @ \o <<"refresh_all",
                                               "status:Transfer completed">>])

\* FileListFrame.on_double_click on a directory of the local panel.
LocalNavigate ==
    \E d \in LocalDirs \ {app.local_dir} :
        OffSession([app EXCEPT !.local_dir = d])

NextApp ==
    \/ ClickConnect
    \/ ConnectBegin
    \/ ConnectEnd
    \/ RunDeferred
    \/ ClickDisconnect
    \/ ClickTransfer
    \/ TransferBegin
    \/ TransferEnd
    \/ TransferExit
    \/ LocalNavigate

SpecApp == InitApp /\ [][NextApp]_vars

\* ================================================================= claims
NoneOf(events, S) == \A i \in 1..Len(events) : events[i] \notin S

RaiseEvents ==
    {"raise:AuthenticationException", "raise:SSHException", "raise:OSError"}

\* The call e occurs in events and returns: the next event is not the
\* exception it raised.
Succeeded(events, S) ==
    \E i \in 1..Len(events) :
        /\ events[i] \in S
        /\ ~(i < Len(events) /\ events[i + 1] \in RaiseEvents)

Failed(events, S) ==
    \E i \in 1..Len(events) :
        /\ events[i] \in S
        /\ i < Len(events) /\ events[i + 1] \in RaiseEvents

\* Some event of S occurs before an occurrence of e.
Precedes(events, S, e) ==
    \E i \in 1..Len(events), j \in 1..Len(events) :
        /\ events[i] \in S
        /\ events[j] = e
        /\ i < j

Disconnected == ~is_connected /\ ssh_client = 0 /\ sftp_client = 0

Fields == <<ssh_client, sftp_client, is_connected, current_remote_path,
            status_callback, ssh_state, sftp_state, nextId>>

\* C1: while the session is not connected, every remote operation raises
\* ConnectionError, sends nothing on the SFTP handle (it makes no collaborator
\* call at all) and leaves the client as it was.
C1_NotConnectedRaises ==
    [][(~is_connected /\ last'.op \in RemoteOps) =>
          /\ last'.result = "raise"
          /\ last'.raised = "ConnectionError"
          /\ last'.events = <<>>
          /\ UNCHANGED Fields]_vars

\* C1 witness: an upload refused on a session that was connected and then
\* disconnected.
C1_Witness ==
    /\ last.op = "upload_file"
    /\ last.raised = "ConnectionError"
    /\ ~is_connected
    /\ \E h \in Ids : ssh_state[h] = "closed"

\* C2: the session is not connected before the first connect(); is_connected
\* turns true only in a connect() whose transport connect and open_sftp both
\* returned, after both; a connect() in which either raised does not set it.
C2_ConnectedOnlyAfterHandshakes ==
    /\ [](nextId = 1 => ~is_connected)
    /\ [][/\ (is_connected' /\ ~is_connected) =>
                /\ last'.op = "connect"
                /\ Succeeded(last'.events, TransportConnects)
                /\ Succeeded(last'.events, {"ssh.open_sftp"})
                /\ Precedes(last'.events, TransportConnects, "ssh.open_sftp")
                /\ Precedes(last'.events, {"ssh.open_sftp"}, "is_connected=True")
                /\ ssh_state'[last'.hid] = "connected"
                /\ sftp_state'[last'.hid] = "open"
          /\ (/\ last'.op = "connect"
              /\ \/ Failed(last'.events, TransportConnects)
                 \/ Failed(last'.events, {"ssh.open_sftp"})
                 \/ NoneOf(last'.events, TransportConnects)
                 \/ NoneOf(last'.events, {"ssh.open_sftp"})) =>
                /\ ~Has(last'.events, "is_connected=True")
                /\ is_connected' = is_connected]_vars

\* C2 witness: a connect() on a disconnected session whose SFTP open failed
\* after the transport had connected.
C2_Witness ==
    /\ last.op = "connect"
    /\ Succeeded(last.events, TransportConnects)
    /\ Failed(last.events, {"ssh.open_sftp"})
    /\ ~is_connected

Live(h) == ssh_state[h] = "connected" \/ sftp_state[h] = "open"

\* C3: after a connect() that returned False no handle that call created is
\* still open, and after the context manager's exit no handle is open at all.
C3_FailedConnectLeavesNothingOpen ==
    /\ (last.op = "connect" /\ last.result = "False") => ~Live(last.hid)
    /\ (last.op = "exit" /\ ~Has(last.events, "raise:close")) =>
           \A h \in Ids : ~Live(h)

\* C4: disconnect() never raises; on a session that is already disconnected
\* it changes no field of the client; and a disconnect() whose close() calls
\* all returned leaves the session disconnected, so that a second one changes
\* nothing.
C4_DisconnectIdempotent ==
    [][(last'.op = "disconnect") =>
          /\ last'.raised = "none"
          /\ Disconnected => (Disconnected' /\ UNCHANGED Fields)
          /\ ~Has(last'.events, "raise:close") => Disconnected']_vars

\* C4 witness: a disconnect() on a session that an earlier disconnect() left
\* disconnected.
C4_Witness ==
    /\ last.op = "disconnect"
    /\ ~Has(last.events, "sftp.close")
    /\ ~Has(last.events, "ssh.close")
    /\ Disconnected
    /\ \E h \in Ids : ssh_state[h] = "closed" /\ sftp_state[h] = "closed"

\* C5: of two disconnect() calls in a row the observer is told 'Disconnected'
\* at most once.
C5_NoDuplicateNotification ==
    [][(last.op = "disconnect" /\ last'.op = "disconnect") =>
          Count(last.events, "notify:Disconnected")
            + Count(last'.events, "notify:Disconnected") <= 1]_vars

\* C6: disconnect() never raises, whatever handles exist; when both handles
\* are held it closes the SFTP channel first, closes the SSH transport only
\* once the SFTP channel is closed, and closes both if no close() raises.
C6_SftpClosedBeforeSsh ==
    [][(last'.op = "disconnect") =>
          /\ last'.raised = "none"
          /\ (sftp_client # 0 /\ ssh_client # 0) =>
                /\ last'.events[1] = "sftp.close"
                /\ Has(last'.events, "ssh.close") =>
                      /\ sftp_state'[sftp_client] = "closed"
                      /\ Before(last'.events, "sftp.close", "ssh.close")
                /\ ~Has(last'.events, "raise:close") =>
                      /\ Has(last'.events, "ssh.close")
                      /\ ssh_state'[ssh_client] = "closed"]_vars

\* C6 witness: a disconnect() of a connected session that closed both handles.
C6_Witness ==
    /\ last.op = "disconnect"
    /\ Len(last.events) >= 2
    /\ last.events[1] = "sftp.close"
    /\ last.events[2] = "ssh.close"
    /\ Disconnected

\* C7: connect() with no password and no key that can be used (none given or
\* no such file, a file that does not load, an encrypted key) returns False
\* without calling SSHClient.connect, and does not change is_connected.
C7_NoCredentialsNoNetwork ==
    [][(last'.op = "connect" /\ ~last'.pw) =>
          \/ last'.key = "plain"
          \/ /\ last'.result = "False"
             /\ NoneOf(last'.events, TransportConnects \cup {"ssh.open_sftp"})
             /\ is_connected' = is_connected]_vars

\* C7 witness: a first connect() given neither key nor password.
C7_Witness ==
    /\ last.op = "connect"
    /\ last.key = "none"
    /\ ~last.pw
    /\ last.result = "False"
    /\ ~is_connected

\* C8: connect() with a passphrase-protected key and no passphrase returns
\* False right after the failed key load: it never calls SSHClient.connect,
\* with the password or with anything else, and does not change is_connected.
C8_EncryptedKeyWithoutPassphraseFails ==
    [][(last'.op = "connect" /\ last'.key = "encrypted" /\ ~last'.pw) =>
          /\ last'.result = "False"
          /\ last'.events = <<"ssh.new", "key.load">>
          /\ is_connected' = is_connected]_vars

\* C8 witness: such a connect() on a fresh client.
C8_Witness ==
    /\ last.op = "connect"
    /\ last.key = "encrypted"
    /\ ~last.pw
    /\ last.hid = 1

\* Key authentication failed for a reason other than a passphrase: the file
\* did not load as a key, or the server rejected the key.
KeyAuthFailed(c) ==
    \/ c.key = "corrupt"
    \/ \E i \in 1..Len(c.events) - 1 :
           /\ c.events[i] = "ssh.connect(pkey)"
           /\ c.events[i + 1] = "raise:AuthenticationException"

\* C9: when key authentication fails that way, connect() tries the password
\* in the same call if one was given, and fails if none was.
C9_FallsBackToPassword ==
    (last.op = "connect" /\ KeyAuthFailed(last)) =>
        IF last.pw THEN Has(last.events, "ssh.connect(password)")
        ELSE last.result # "True"

\* C10: the remote cursor is never empty and always begins with '/'.
C10_CursorAbsolute ==
    /\ current_remote_path # <<>>
    /\ current_remote_path[1] = "/"

\* C10 witness: a successful change that left the cursor at '/a/' (the empty
\* token from '/a', or the relative token 'a/' from the root).
C10_Witness ==
    /\ last.op = "change_remote_directory"
    /\ last.result = "True"
    /\ current_remote_path = <<"/", "a", "/">>
    /\ is_connected

\* The segments of a path: its non-empty parts between separators.
Segs(path) == SelectSeq(Split(path), LAMBDA part : part # <<>>)

IsPrefix(s, t) == Len(s) <= Len(t) /\ s = SubSeq(t, 1, Len(s))

AllButLast(s) == IF s = <<>> THEN <<>> ELSE Front(s)

ParentResolved ==
    /\ resolve.pc = "done"
    /\ resolve.via = "go_up" \/ resolve.token = DOTDOT

\* C11: from an absolute cursor, the parent computed by
\* change_remote_directory('..') and by go_up is an absolute path whose
\* segments are a prefix of the cursor's (never above or shorter than '/'),
\* and from '/' it is '/'.
C11_ParentNeverAboveRoot ==
    ParentResolved =>
        /\ StartsWithSlash(resolve.result)
        /\ IsPrefix(Segs(resolve.result), Segs(resolve.cursor))
        /\ resolve.cursor = SLASH => resolve.result = SLASH
        /\ resolve.via = "go_up" =>
               /\ StartsWithSlash(resolve.parent)
               /\ resolve.cursor = SLASH => resolve.parent = SLASH

\* C11 witness: go_up from '/a', where the joined parts are empty and the
\* parent is the root only by the `or "/"` default.
C11_Witness ==
    /\ resolve.pc = "done"
    /\ resolve.via = "go_up"
    /\ resolve.cursor = <<"/", "a">>
    /\ resolve.parent = SLASH
    /\ resolve.result = SLASH

\* C12: the three rules of change_remote_directory.  '..' drops the last
\* segment of the cursor; a token starting with '/' is the result; any other
\* token follows the cursor without its trailing separators and exactly one
\* '/', adding one segment when the token is a name.  From '/a/b': 'a' gives
\* '/a/b/a', '/b' gives '/b', '..' gives '/a'.
C12_ThreeResolutionRules ==
    (resolve.pc = "done" /\ resolve.via = "change_remote_directory") =>
        LET cur == resolve.cursor
            tok == resolve.token
            res == resolve.result
        IN
        /\ tok = DOTDOT => Segs(res) = AllButLast(Segs(cur))
        /\ (tok # DOTDOT /\ StartsWithSlash(tok)) => res = tok
        /\ (tok # DOTDOT /\ ~StartsWithSlash(tok)) =>
               /\ \E k \in 0..Len(cur) :
                      /\ k = 0 \/ cur[k] # "/"
                      /\ \A j \in (k + 1)..Len(cur) : cur[j] = "/"
                      /\ res = SubSeq(cur, 1, k) \o SLASH \o tok
               /\ (tok # <<>> /\ \A i \in 1..Len(tok) : tok[i] # "/") =>
                      Segs(res) = Append(Segs(cur), tok)
        /\ cur = <<"/", "a", "/", "b">> =>
               /\ tok = <<"a">> => res = <<"/", "a", "/", "b", "/", "a">>
               /\ tok = <<"/", "b">> => res = <<"/", "b">>
               /\ tok = DOTDOT => res = <<"/", "a">>

\* C12 witness: the relative token 'a' resolved from '/a/b'.
C12_Witness ==
    /\ resolve.pc = "done"
    /\ resolve.via = "change_remote_directory"
    /\ resolve.cursor = <<"/", "a", "/", "b">>
    /\ resolve.token = <<"a">>
    /\ resolve.result = <<"/", "a", "/", "b", "/", "a">>

Listed == listing.pc = "done" /\ listing.result = "list"

\* C13: a returned listing holds every raw entry once, has every directory
\* entry before every other entry, and within directories and within the
\* others the lower-cased names never descend.
C13_DirectoriesFirstThenByName ==
    Listed =>
        LET files == listing.files IN
        /\ Len(files) = Len(listing.raw)
        /\ {files[i].name : i \in 1..Len(files)} =
               {listing.raw[i].name : i \in 1..Len(listing.raw)}
        /\ \A i, j \in 1..Len(files) :
               i < j =>
                   /\ files[i].is_directory \/ ~files[j].is_directory
                   /\ files[i].is_directory = files[j].is_directory =>
                          ~StrLess(Lower(files[j].name), Lower(files[i].name))

\* C13 witness: the store returned the file 'B' before the file 'a' (the
\* order of their code points) and the listing returned 'a' first.
C13_Witness ==
    /\ Listed
    /\ Len(listing.raw) = 2
    /\ listing.raw[1].name = <<"B">> /\ listing.raw[1].kind = "reg"
    /\ listing.raw[2].name = <<"a">> /\ listing.raw[2].kind = "reg"
    /\ listing.files[1].name = <<"a">>
    /\ listing.files[2].name = <<"B">>

\* C14: every listed entry flagged as a directory has size 0.
C14_DirectorySizeZero ==
    Listed =>
        \A i \in 1..Len(listing.files) :
            listing.files[i].is_directory => listing.files[i].size = 0

\* An upload_file call that got past the is_connected check.
UploadOf(kind) ==
    /\ last.op = "upload_file"
    /\ last.raised = "none"
    /\ last.local = kind

\* C15: upload_file on a connected session with no file at the local path
\* returns False and never calls put on the SFTP handle.
C15_MissingLocalFileNoPut ==
    UploadOf("absent") =>
        /\ last.result = "False"
        /\ NoneOf(last.events, {"sftp.put"})

\* C15 witness: such an upload, stopped by the existence test.
C15_Witness ==
    /\ UploadOf("absent")
    /\ is_connected
    /\ last.events = <<"os.path.exists", "raise:FileNotFoundError">>

\* C16: upload_file on a connected session with a local path that exists but
\* is not a regular file is rejected as not found, with no put.
C16_NonRegularLocalRejected ==
    UploadOf("other") =>
        /\ last.result = "False"
        /\ Has(last.events, "raise:FileNotFoundError")
        /\ NoneOf(last.events, {"sftp.put"})

\* A transfer that ran and did not succeed, and what made it fail: the call
\* that raised and the exception.
FailedTransfer(c) ==
    /\ c.op \in {"upload_file", "download_file"}
    /\ c.raised = "none"
    /\ c.result # "True"
    /\ Len(c.events) >= 2
    /\ c.events[Len(c.events)] # "raise:AttributeError"

FailureKind(c) == <<c.events[Len(c.events) - 1], c.events[Len(c.events)]>>

\* C17: two failed transfers, one after the other, that failed for different
\* reasons (source not found, permission denied, connection dropped, disk
\* failure, parent directory not created) return different results.
C17_FailureKindsDistinguishable ==
    [][(FailedTransfer(last) /\ FailedTransfer(last')
            /\ FailureKind(last) # FailureKind(last'))
        => last.result # last'.result]_vars

\* C18: a failed upload or download ends at the exception: it removes
\* neither the local nor the remote destination.
C18_NoCleanupOnFailure ==
    FailedTransfer(last) =>
        /\ NoneOf(last.events, {"os.remove", "sftp.remove", "sftp.unlink"})
        /\ last.events[Len(last.events)] \in GetOutcomes \ {"ok"}

\* C18 witness: a download whose connection dropped inside get.
C18_Witness ==
    /\ FailedTransfer(last)
    /\ last.op = "download_file"
    /\ last.events = <<"sftp.get", "raise:EOFError">>

\* The counts delivered so far never descend and never exceed the total.
ProgressInOrder ==
    LET d == xfer.delivered IN
    /\ \A i \in 1..Len(d) :
           /\ d[i].transferred <= d[i].total
           /\ d[i].total = xfer.total
    /\ \A i, j \in 1..Len(d) : i < j => d[i].transferred <= d[j].transferred

C20_CancelStopsTransfer ==
    (xfer.pc # "idle" /\ xfer.cancel_at >= 0) =>
        /\ xfer.sent <= xfer.cancel_at + 1
        /\ xfer.pc = "returned" => xfer.result = "Cancelled"

FailureNotices ==
    {"notify:Authentication failed", "notify:Connection error",
     "notify:Connection failed"}

\* C22: with a status observer registered, connect() notifies 'connecting'
\* when it starts, 'connected' when it returns True and a failure when it
\* does not; a disconnect() that disconnected notifies 'disconnected'.
C22_NotifiesEachTransition ==
    status_callback =>
        /\ last.op = "connect" =>
               /\ Has(last.events, "notify:Connecting")
               /\ last.result = "True" => Has(last.events, "notify:Connected")
               /\ last.result # "True" =>
                      \E i \in 1..Len(last.events) :
                          last.events[i] \in FailureNotices
        /\ (last.op = "disconnect" /\ Has(last.events, "is_connected=False")) =>
               Has(last.events, "notify:Disconnected")

\* C23: after a connect() that returned False the session is not connected,
\* and after one that returned True it is.
C23_ConnectResultMatchesState ==
    last.op = "connect" =>
        /\ last.result = "False" => ~is_connected
        /\ last.result = "True" => is_connected

\* C24: after a connect() on a session that was connected, every SSH
\* transport and SFTP channel still open is the one the session holds.
C24_ReconnectReleasesHandles ==
    [][(is_connected /\ nextId' # nextId) =>
          \A h \in Ids :
              /\ ssh_state'[h] = "connected" => ssh_client' = h
              /\ sftp_state'[h] = "open" => sftp_client' = h]_vars

\* C25: a session marked connected holds both handles.
C25_ConnectedHoldsBothHandles ==
    is_connected => (sftp_client # 0 /\ ssh_client # 0)

PanelNavigations == {"on_path_change", "go_up", "on_double_click"}

\* C26: a navigation that returns False leaves its cursor as it was: the
\* remote cursor for change_remote_directory (called by the panel), the
\* local cursor for change_local_directory.
C26_FailedNavigationKeepsCursor ==
    [][/\ (last'.op \in PanelNavigations /\ last'.result = "False") =>
              current_remote_path' = current_remote_path
       /\ (last'.op = "change_local_directory" /\ last'.result = "False") =>
              nav'.local = nav.local]_vars

\* C26 witness: the relative path 'a' typed at the root, its listing
\* refused, the remote cursor still '/'.
C26_Witness ==
    /\ last.op = "on_path_change"
    /\ last.result = "False"
    /\ nav.asked = <<"a">>
    /\ current_remote_path = SLASH
    /\ Has(last.events, "sftp.listdir")

\* C27: after a successful navigation made through the remote panel the
\* panel's path is the session's remote cursor.
C27_PanelFollowsSession ==
    (nav # Idle /\ last.op \in PanelNavigations /\ last.result = "True") =>
        nav.panel = current_remote_path

\* C21: no operation on the session starts while another one is running in
\* a worker thread.
C21_OneOperationInFlight ==
    app # Idle => app.others = 0

\* C28: 'Transfer completed' is deferred for a batch only if every
\* upload_file / download_file call of the batch returned True.
C28_CompletedOnlyIfAllSucceeded ==
    [][(app # Idle /\ app.transfer_thread = "looping"
            /\ app'.transfer_thread = "none"
            /\ app'.queue # <<>>
            /\ app'.queue[Len(app'.queue)] = "status:Transfer completed")
        => \A i \in 1..Len(app.results) : app.results[i].result = "True"]_vars

\* C29: the indicator reads 'Connected' only while the session is
\* connected, and on_connected never finds current_connection cleared.
C29_IndicatorFollowsSession ==
    app # Idle =>
        /\ app.indicator = "Connected" => is_connected
        /\ app.error # "on_connected:TypeError"

\* C30: every file of a batch is transferred from or to the local directory
\* that was current when the batch was requested.
C30_BatchKeepsItsDirectories ==
    app # Idle =>
        \A i \in 1..Len(app.results) : app.results[i].dir = app.batch_dir

=============================================================================
